---- MODULE Spec2Model ----
(***************************************************************************)
(* Model of temba.schedules.models.Schedule: the recurrence fields, the    *)
(* update_schedule normalisation and the calculate_next_fire loops, over   *)
(* Python's aware-datetime arithmetic (datetime, zoneinfo, relativedelta). *)
(***************************************************************************)
EXTENDS Integers, Sequences, FiniteSets, TLC

(***************************************************************************)
(* Optional values: None is the empty sequence, a set value x is <<x>>.    *)
(***************************************************************************)
None == <<>>
Some(x) == <<x>>
Val(o) == o[1]

(***************************************************************************)
(* Calendar arithmetic, as in Python's datetime and calendar modules.      *)
(***************************************************************************)
IsLeap(year) == year % 4 = 0 /\ (year % 100 # 0 \/ year % 400 = 0)

DaysInMonth(year, month) ==
    IF month = 2 THEN (IF IsLeap(year) THEN 29 ELSE 28)
    ELSE IF month \in {4, 6, 9, 11} THEN 30 ELSE 31

DaysBeforeYear(year) ==
    LET y == year - 1 IN y * 365 + (y \div 4) - (y \div 100) + (y \div 400)

RECURSIVE DaysBeforeMonth(_, _)
DaysBeforeMonth(year, month) ==
    IF month = 1 THEN 0
    ELSE DaysBeforeMonth(year, month - 1) + DaysInMonth(year, month - 1)

Ymd2Ord(year, month, day) == DaysBeforeYear(year) + DaysBeforeMonth(year, month) + day

\* date.weekday(): Monday is 0, Sunday is 6
Weekday(year, month, day) == (Ymd2Ord(year, month, day) + 6) % 7

\* seconds of a naive wall-clock reading since 2000-01-01 00:00:00
WallSeconds(d) ==
    (Ymd2Ord(d.year, d.month, d.day) - Ymd2Ord(2000, 1, 1)) * 86400
        + d.hour * 3600 + d.minute * 60 + d.second

NextDay(d) ==
    IF d.day < DaysInMonth(d.year, d.month) THEN [d EXCEPT !.day = d.day + 1]
    ELSE IF d.month < 12 THEN [d EXCEPT !.month = d.month + 1, !.day = 1]
    ELSE [d EXCEPT !.year = d.year + 1, !.month = 1, !.day = 1]

PrevDay(d) ==
    IF d.day > 1 THEN [d EXCEPT !.day = d.day - 1]
    ELSE IF d.month > 1
         THEN [d EXCEPT !.month = d.month - 1, !.day = DaysInMonth(d.year, d.month - 1)]
    ELSE [d EXCEPT !.year = d.year - 1, !.month = 12, !.day = 31]

\* the wall-clock fields moved by delta seconds, |delta| < 86400
ShiftSeconds(d, delta) ==
    LET sod == d.hour * 3600 + d.minute * 60 + d.second + delta
        day == IF sod < 0 THEN PrevDay(d) ELSE IF sod >= 86400 THEN NextDay(d) ELSE d
        s   == IF sod < 0 THEN sod + 86400 ELSE IF sod >= 86400 THEN sod - 86400 ELSE sod
    IN [day EXCEPT !.hour = s \div 3600, !.minute = (s % 3600) \div 60, !.second = s % 60]

(***************************************************************************)
(* Time zones.  "utc" is datetime.timezone.utc; the others are the         *)
(* ZoneInfo objects an org can carry.                                      *)
(***************************************************************************)
utc == "utc"
OrgTimezones == {"Etc/UTC", "Africa/Kigali", "America/New_York"}

StdOffset(zone) ==
    IF zone = "Africa/Kigali" THEN 2 * 3600
    ELSE IF zone = "America/New_York" THEN 0 - 5 * 3600
    ELSE 0

HasDst(zone) == zone = "America/New_York"

\* the n-th Sunday of a month
NthSunday(year, month, n) ==
    CHOOSE day \in (7 * n - 6)..(7 * n) : Weekday(year, month, day) = 6

UtcSeconds(year, month, day, hour) ==
    WallSeconds([year |-> year, month |-> month, day |-> day,
                 hour |-> hour, minute |-> 0, second |-> 0])

\* US rule: second Sunday of March 02:00 EST, first Sunday of November 02:00 EDT
DstStartUtc(zone, year) == UtcSeconds(year, 3, NthSunday(year, 3, 2), 7)
DstEndUtc(zone, year) == UtcSeconds(year, 11, NthSunday(year, 11, 1), 6)

ZoneOffsetOfWall_OneTransition(zone, d) ==
    LET std == StdOffset(zone)
        w   == WallSeconds(d)
    IN IF HasDst(zone) /\ DstStartUtc(zone, d.year) + std <= w
                     /\ w < DstEndUtc(zone, d.year) + std
       THEN std + 3600 ELSE std

\* ZoneInfo.utcoffset of a wall-clock reading: the transition is placed at
\* trans + max(offsets) for fold 0 and at trans + min(offsets) for fold 1
ZoneOffsetOfWall(zone, d) ==
    LET std   == StdOffset(zone)
        w     == WallSeconds(d)
        shift == IF d.fold = 0 THEN std + 3600 ELSE std
    IN IF HasDst(zone) /\ DstStartUtc(zone, d.year) + shift <= w
                     /\ w < DstEndUtc(zone, d.year) + shift
       THEN std + 3600 ELSE std

utcoffset(d) == IF d.tzinfo = utc THEN 0 ELSE ZoneOffsetOfWall(d.tzinfo, d)

\* the instant of an aware datetime, in seconds
Instant(d) == WallSeconds(d) - utcoffset(d)

\* ZoneInfo.fromutc: the wall-clock reading of a UTC datetime in zone, with fold 1
\* during the repeated hour after the clocks go back
fromutc(zone, u) ==
    LET std == StdOffset(zone)
        w   == WallSeconds(u)
        dst == HasDst(zone) /\ DstStartUtc(zone, u.year) <= w /\ w < DstEndUtc(zone, u.year)
        rep == HasDst(zone) /\ DstEndUtc(zone, u.year) <= w /\ w < DstEndUtc(zone, u.year) + 3600
        loc == ShiftSeconds(u, IF dst THEN std + 3600 ELSE std)
    IN [loc EXCEPT !.tzinfo = zone, !.fold = IF rep THEN 1 ELSE 0]

\* datetime.astimezone
astimezone(d, zone) ==
    IF d.tzinfo = zone THEN d
    ELSE LET u == [ShiftSeconds(d, 0 - utcoffset(d)) EXCEPT !.tzinfo = utc, !.fold = 0]
         IN IF zone = utc THEN u ELSE fromutc(zone, u)

\* ordering of aware datetimes: the same tzinfo compares the wall clocks,
\* different tzinfos compare the instants
Lt(a, b) ==
    IF a.tzinfo = b.tzinfo THEN WallSeconds(a) < WallSeconds(b)
    ELSE Instant(a) < Instant(b)
Le(a, b) == ~Lt(b, a)
Gt(a, b) == Lt(b, a)

\* datetime + timedelta(days=1)
AddOneDay(d) == NextDay(d)

\* datetime + relativedelta(months=1): the day is clamped to the new month
AddOneMonth(d) ==
    LET y == IF d.month = 12 THEN d.year + 1 ELSE d.year
        m == IF d.month = 12 THEN 1 ELSE d.month + 1
        dim == DaysInMonth(y, m)
    IN [d EXCEPT !.year = y, !.month = m, !.day = IF d.day < dim THEN d.day ELSE dim]

\* datetime + relativedelta(years=1): 29 February becomes 28 February
AddOneYear(d) ==
    LET dim == DaysInMonth(d.year + 1, d.month)
    IN [d EXCEPT !.year = d.year + 1, !.day = IF d.day < dim THEN d.day ELSE dim]

DateTime(year, month, day, hour, minute, second, zone) ==
    [year |-> year, month |-> month, day |-> day, hour |-> hour,
     minute |-> minute, second |-> second, tzinfo |-> zone, fold |-> 0]

\* datetime.replace(hour=, minute=, second=0, microsecond=0): tzinfo and fold are kept
ReplaceTimeZeroSeconds(d, hour, minute) ==
    [d EXCEPT !.hour = hour, !.minute = minute, !.second = 0]

\* datetime.replace(hour=, minute=)
ReplaceTime(d, hour, minute) == [d EXCEPT !.hour = hour, !.minute = minute]

\* datetime.replace(day=, hour=, minute=)
ReplaceDayTime(d, day, hour, minute) ==
    [d EXCEPT !.day = day, !.hour = hour, !.minute = minute]

(***************************************************************************)
(* Schedule                                                                *)
(***************************************************************************)
REPEAT_NEVER == "O"
REPEAT_DAILY == "D"
REPEAT_WEEKLY == "W"
REPEAT_MONTHLY == "M"
REPEAT_YEARLY == "Y"

\* ordered in the same way as python's weekday function
DAYS_OF_WEEK_OFFSET == <<"M", "T", "W", "R", "F", "S", "U">>

\* c in s, for a character c and a string s (a sequence of characters)
InString(c, s) == \E i \in 1..Len(s) : s[i] = c

\* Schedule._day_of_week
_day_of_week(d) == DAYS_OF_WEEK_OFFSET[Weekday(d.year, d.month, d.day) + 1]

\* Python truthiness of an optional string: None and "" are falsy
Falsy(optstr) == optstr = None \/ Val(optstr) = <<>>

VARIABLES
    tz,          \* self.org.timezone
    self,        \* the Schedule object in memory (None before create)
    db,          \* the row written by the last self.save() (None when never saved)
    pc,          \* position: "idle", a loop head of calculate_next_fire, or "raised"
    caller,      \* the entry point of the call in progress, or of the last call
    start_time,  \* update_schedule's start_time argument, as given
    now,         \* the reference instant of the call
    next_fire,   \* calculate_next_fire's local candidate
    iterations,  \* advances made by the loop of the call
    result,      \* the value returned by the last calculate_next_fire
    chain,       \* calls made with the previous result as reference
    call,        \* the repeat_period and repeat_days_of_week arguments of the last
                 \* create or update_schedule call
    normalized,  \* the object as the first of two identical update_schedule calls
                 \* left it (None outside such a pair)
    expected,    \* the value calculate_next_fire returned to the schedule's twin
                 \* (None until the twin is called)
    time,        \* the dispatcher's clock: an index into PollClocks
    worker,      \* per dispatcher worker: its last poll and the advance it owes
    version,     \* the row's version: the advances applied to it
    redis,       \* the Redis the mailroom queues live in: key -> sorted set
    queued,      \* the tasks handed to the mailroom queue so far, in order
    tables,      \* the DynamoDB tables that exist: name -> description
    out,         \* what the migrate_dynamo run in progress, or the last one, wrote
    command,     \* the migrate_dynamo run: its position, settings and start state
    channels,    \* the rows of Channel, in order of id
    templates,   \* the template translations held locally: (channel id, template)
    whatsapp     \* the last run of a WhatsApp management command and its outcome

\* the dispatcher's side
dispatcher == <<time, worker, version>>

\* what the steps inside calculate_next_fire leave alone besides the schedule
rest == <<call, normalized, expected, time, worker, version>>

\* the collaborators outside the schedule engine
external == <<redis, queued, tables, out, command, channels, templates, whatsapp>>

vars == <<tz, self, db, pc, caller, start_time, now, next_fire, iterations, result, chain,
          call, normalized, expected, time, worker, version,
          redis, queued, tables, out, command, channels, templates, whatsapp>>


(***************************************************************************)
(* Inputs.  Start times are wall-clock readings in the org timezone (what  *)
(* a user picks), reference instants are UTC readings of the clock, handed *)
(* over either as they are (timezone.now()) or converted to the org zone.  *)
(***************************************************************************)
MaxIterations == 15
MaxChain == 3
MaxVersion == 2

Workers == {"w1", "w2"}

\* the readings of the dispatcher's clock, in order
PollClocks ==
    << DateTime(2024, 3, 14, 14, 0, 30, utc),
       DateTime(2024, 3, 15, 14, 0, 0, utc),
       DateTime(2024, 3, 20, 13, 0, 0, utc) >>   \* 09:00 in New York

Clock == PollClocks[time]

IdleWorker == [pc |-> "idle", due |-> FALSE, now |-> None, seen |-> 0, outcome |-> "none"]

\* the dispatcher at its start, with the given workers running
DispatcherInit(running) ==
    /\ time = 1
    /\ worker = [w \in Workers |->
                    IF w \in running THEN IdleWorker ELSE [IdleWorker EXCEPT !.pc = "stopped"]]
    /\ version = 0

\* a management command that is not running
IdleCommand == [pc |-> "idle", prefix |-> <<>>, receivers |-> {}, todo |-> <<>>,
                before |-> <<>>, runs |-> 0]

\* the channels there are before any WhatsApp command runs: one of another
\* type, and a WhatsApp channel that is no longer active
InitialChannels ==
    << [org |-> 1, channel_type |-> "TG", name |-> <<"T", "G">>, address |-> "100",
        config |-> <<>>, is_active |-> TRUE, role |-> "SR", is_enabled |-> TRUE,
        modified_on |-> None],
       [org |-> 1, channel_type |-> "WA", name |-> <<"o", "l", "d">>, address |-> "200",
        config |-> <<>>, is_active |-> FALSE, role |-> "SR", is_enabled |-> TRUE,
        modified_on |-> None] >>

NoWhatsappRun == [command |-> "none", options |-> <<>>, outcome |-> "none"]

\* the collaborators at the start of a test: Redis flushed, no table, no
\* command run
NoExternal ==
    /\ redis = <<>>
    /\ queued = <<>>
    /\ tables = <<>>
    /\ out = <<>>
    /\ command = IdleCommand
    /\ channels = InitialChannels
    /\ templates = {}
    /\ whatsapp = NoWhatsappRun

StartDates == {<<2024, 1, 1>>, <<2024, 1, 31>>, <<2024, 2, 29>>}
StartClocks == {<<0, 30>>, <<1, 0>>, <<2, 30>>, <<9, 0>>, <<23, 30>>}
StartTimes(zone) ==
    {DateTime(d[1], d[2], d[3], c[1], c[2], 0, zone) : d \in StartDates, c \in StartClocks}

DaySets == {<<"W", "F">>, <<"U">>}

NowInstants ==
    { DateTime(2024, 3, 10, 4, 30, 0, utc),    \* Saturday 23:30 in New York, the eve of the change
      DateTime(2024, 3, 10, 4, 45, 0, utc),    \* Saturday 23:45, before the clocks go forward
      DateTime(2024, 3, 10, 6, 45, 0, utc),    \* 01:45 EST, a quarter of an hour before the gap
      DateTime(2024, 3, 10, 7, 15, 0, utc),    \* 03:15 EDT, a quarter of an hour after the gap
      DateTime(2024, 3, 14, 14, 0, 30, utc),   \* a Thursday, 10:00:30 in New York
      DateTime(2024, 11, 3, 6, 15, 0, utc),    \* 01:15 EST, in the repeated hour
      DateTime(2024, 11, 3, 15, 0, 0, utc),    \* the day the clocks go back in New York
      DateTime(2025, 2, 10, 12, 0, 0, utc) }
References(zone) == NowInstants \cup {astimezone(u, zone) : u \in NowInstants}

Recurring == {REPEAT_DAILY, REPEAT_WEEKLY, REPEAT_MONTHLY, REPEAT_YEARLY}

\* cls(org=org, repeat_period=repeat_period)
NewSchedule(repeat_period) ==
    [repeat_period |-> repeat_period,
     repeat_hour_of_day |-> None, repeat_minute_of_hour |-> None,
     repeat_day_of_month |-> None, repeat_days_of_week |-> None,
     is_paused |-> FALSE, last_fire |-> None, next_fire |-> None]

ClearedFields_KeepsDays(obj, start, repeat_period) ==
    [obj EXCEPT !.repeat_period = repeat_period,
                !.repeat_minute_of_hour = None, !.repeat_hour_of_day = None,
                !.repeat_day_of_month = None,
                !.next_fire = Some(start)]

\* update_schedule, REPEAT_NEVER branch: the fields written before save()
ClearedFields(obj, start, repeat_period) ==
    [obj EXCEPT !.repeat_period = repeat_period,
                !.repeat_minute_of_hour = None, !.repeat_hour_of_day = None,
                !.repeat_day_of_month = None, !.repeat_days_of_week = None,
                !.next_fire = Some(start)]

\* update_schedule, recurring branch: the fields derived from the start time in
\* the org timezone
RecurrenceFields(obj, local, repeat_period, repeat_days_of_week) ==
    [obj EXCEPT !.repeat_period = repeat_period,
                !.repeat_hour_of_day = Some(local.hour),
                !.repeat_minute_of_hour = Some(local.minute),
                !.repeat_days_of_week =
                    IF repeat_period = REPEAT_WEEKLY THEN repeat_days_of_week ELSE None,
                !.repeat_day_of_month =
                    IF repeat_period = REPEAT_MONTHLY THEN Some(local.day) ELSE None]

\* the assert of the weekly branch
WeeklyAssertion(obj) == ~Falsy(obj.repeat_days_of_week)

LoopHead(repeat_period) ==
    IF repeat_period = REPEAT_MONTHLY THEN "monthly"
    ELSE IF repeat_period = REPEAT_WEEKLY THEN "weekly"
    ELSE IF repeat_period = REPEAT_DAILY THEN "daily"
    ELSE "yearly"

EnterCalculateNextFire_FromNextFire(obj, ref, entry) ==
    /\ now' = Some(ref)
    /\ next_fire' =
          LET local == astimezone(ref, tz)
              anchor == astimezone(Val(obj.next_fire), tz)
              start == IF obj.repeat_period = REPEAT_YEARLY /\ obj.next_fire # None
                       THEN [local EXCEPT !.month = anchor.month, !.day = anchor.day]
                       ELSE local
          IN Some(ReplaceTimeZeroSeconds(start, Val(obj.repeat_hour_of_day),
                                         Val(obj.repeat_minute_of_hour)))
    /\ iterations' = 0
    /\ result' = None
    /\ caller' = entry
    /\ pc' = IF obj.repeat_period = REPEAT_WEEKLY /\ ~WeeklyAssertion(obj)
             THEN "raised" ELSE LoopHead(obj.repeat_period)

\* calculate_next_fire up to its loop: the candidate starts from the reference
\* in the org timezone, at the schedule's hour and minute
EnterCalculateNextFire(obj, ref, entry) ==
    /\ now' = Some(ref)
    /\ next_fire' = Some(ReplaceTimeZeroSeconds(astimezone(ref, tz),
                             Val(obj.repeat_hour_of_day), Val(obj.repeat_minute_of_hour)))
    /\ iterations' = 0
    /\ result' = None
    /\ caller' = entry
    /\ pc' = IF obj.repeat_period = REPEAT_WEEKLY /\ ~WeeklyAssertion(obj)
             THEN "raised" ELSE LoopHead(obj.repeat_period)

\* return from calculate_next_fire; under update_schedule the value becomes
\* self.next_fire and the object is saved
Return(value) ==
    /\ result' = Some(value)
    /\ next_fire' = Some(value)
    /\ pc' = "idle"
    /\ IF caller \in {"create", "update_schedule"}
       THEN /\ self' = Some([Val(self) EXCEPT !.next_fire = Some(value)])
            /\ db' = self'
       ELSE UNCHANGED <<self, db>>
    /\ UNCHANGED external
    /\ UNCHANGED <<tz, caller, start_time, now, iterations, chain>>
    /\ UNCHANGED rest

\* one more turn of a loop; the model follows a call for MaxIterations turns
Advance(candidate) ==
    /\ iterations < MaxIterations
    /\ next_fire' = Some(candidate)
    /\ iterations' = iterations + 1
    /\ UNCHANGED external
    /\ UNCHANGED <<tz, self, db, pc, caller, start_time, now, result, chain>>
    /\ UNCHANGED rest

hour == Val(Val(self).repeat_hour_of_day)
minute == Val(Val(self).repeat_minute_of_hour)

\* the monthly loop body up to its test: the clamped day of the candidate's month
MonthlyPlaced ==
    LET nf == Val(next_fire)
        days == DaysInMonth(nf.year, nf.month)
        rdom == Val(Val(self).repeat_day_of_month)
        day_of_month == IF days < rdom THEN days ELSE rdom
    IN ReplaceDayTime(nf, day_of_month, hour, minute)

MonthlyBreak ==
    /\ pc = "monthly"
    /\ Gt(MonthlyPlaced, Val(now))
    /\ Return(MonthlyPlaced)

MonthlyAdvance ==
    /\ pc = "monthly"
    /\ ~Gt(MonthlyPlaced, Val(now))
    /\ Advance(astimezone(AddOneMonth(astimezone(MonthlyPlaced, utc)), tz))

WeeklyCondition_AnyDay == Le(Val(next_fire), Val(now))

\* while next_fire <= now or self._day_of_week(next_fire) not in self.repeat_days_of_week
WeeklyCondition ==
    \/ Le(Val(next_fire), Val(now))
    \/ ~InString(_day_of_week(Val(next_fire)), Val(Val(self).repeat_days_of_week))

NextDayCandidate_NoReplace == astimezone(AddOneDay(astimezone(Val(next_fire), utc)), tz)

NextDayCandidate ==
    ReplaceTime(astimezone(AddOneDay(astimezone(Val(next_fire), utc)), tz), hour, minute)

WeeklyAdvance == pc = "weekly" /\ WeeklyCondition /\ Advance(NextDayCandidate)
WeeklyReturn == pc = "weekly" /\ ~WeeklyCondition /\ Return(Val(next_fire))

DailyCondition_Strict == Lt(Val(next_fire), Val(now))

\* while next_fire <= now
DailyCondition == Le(Val(next_fire), Val(now))
DailyAdvance == pc = "daily" /\ DailyCondition /\ Advance(NextDayCandidate)
DailyReturn == pc = "daily" /\ ~DailyCondition /\ Return(Val(next_fire))

YearlyCondition == Le(Val(next_fire), Val(now))
NextYearCandidate ==
    ReplaceTime(astimezone(AddOneYear(astimezone(Val(next_fire), utc)), tz), hour, minute)
YearlyAdvance == pc = "yearly" /\ YearlyCondition /\ Advance(NextYearCandidate)
YearlyReturn == pc = "yearly" /\ ~YearlyCondition /\ Return(Val(next_fire))

\* a call of calculate_next_fire(now) on the schedule as it stands
CalculateNextFire ==
    /\ pc = "idle"
    /\ self # None
    /\ expected = None
    /\ Val(self).repeat_period \in Recurring
    /\ \E ref \in References(tz) \cup {Val(Val(self).next_fire)} :
          EnterCalculateNextFire(Val(self), ref, "calculate_next_fire")
    /\ chain' = 0
    /\ UNCHANGED external
    /\ UNCHANGED <<tz, self, db, start_time>>
    /\ UNCHANGED rest

\* the next call takes the value just returned as its reference, handed over
\* as returned or as the UTC reading the database gives back
CalculateNextFireAgain ==
    /\ pc = "idle"
    /\ caller = "calculate_next_fire"
    /\ result # None
    /\ expected = None
    /\ chain < MaxChain
    /\ \E ref \in {Val(result), astimezone(Val(result), utc)} :
          EnterCalculateNextFire(Val(self), ref, "calculate_next_fire")
    /\ chain' = chain + 1
    /\ UNCHANGED external
    /\ UNCHANGED <<tz, self, db, start_time>>
    /\ UNCHANGED rest

\* schedules with the rule of obj and another next_fire, or another last_fire
\* and is_paused
Twins(obj) ==
    { [obj EXCEPT !.next_fire = Some(DateTime(2023, 7, 4, Val(obj.repeat_hour_of_day),
                                              Val(obj.repeat_minute_of_hour), 0, tz))],
      [obj EXCEPT !.is_paused = TRUE, !.last_fire = Some(DateTime(2024, 1, 1, 0, 0, 0, utc))] }

\* the call that has just returned is made again, with the same now, on a
\* twin of the schedule; a run ends with the twin's call
CalculateNextFireOnTwin ==
    /\ pc = "idle"
    /\ caller = "calculate_next_fire"
    /\ result # None
    /\ expected = None
    /\ expected' = result
    /\ \E twin \in Twins(Val(self)) :
          /\ self' = Some(twin)
          /\ db' = self'
          /\ EnterCalculateNextFire(twin, Val(now), "calculate_next_fire")
    /\ UNCHANGED external
    /\ UNCHANGED <<tz, start_time, chain, call, normalized, time, worker, version>>

Loop ==
    \/ MonthlyBreak \/ MonthlyAdvance
    \/ WeeklyAdvance \/ WeeklyReturn
    \/ DailyAdvance \/ DailyReturn
    \/ YearlyAdvance \/ YearlyReturn

(***************************************************************************)
(* The engine on its own: a schedule as create leaves it for a start time  *)
(* that is not in the past, then calls of calculate_next_fire.             *)
(***************************************************************************)
EngineRules ==
    {<<REPEAT_DAILY, None>>, <<REPEAT_MONTHLY, None>>, <<REPEAT_YEARLY, None>>}
        \cup {<<REPEAT_WEEKLY, Some(d)>> : d \in DaySets}

EngineInit ==
    /\ tz \in OrgTimezones
    /\ \E start \in StartTimes(tz), rule \in EngineRules :
          /\ self = Some([RecurrenceFields(NewSchedule(rule[1]), start, rule[1], rule[2])
                             EXCEPT !.next_fire = Some(start)])
          /\ start_time = Some(start)
          /\ call = [repeat_period |-> rule[1], repeat_days_of_week |-> rule[2]]
    /\ normalized = None
    /\ expected = None
    /\ NoExternal
    /\ db = self
    /\ pc = "idle"
    /\ caller = "create"
    /\ now = None
    /\ next_fire = None
    /\ iterations = 0
    /\ result = None
    /\ chain = 0
    /\ DispatcherInit({})

EngineNext ==
    CalculateNextFire \/ CalculateNextFireAgain \/ CalculateNextFireOnTwin \/ Loop

EngineSpec == EngineInit /\ [][EngineNext]_vars

(***************************************************************************)
(* create and update_schedule                                              *)
(***************************************************************************)
UpdateStartTimes(zone) ==
    { DateTime(2024, 1, 1, 0, 30, 0, zone),
      DateTime(2024, 1, 31, 1, 0, 0, zone),
      DateTime(2024, 6, 15, 9, 0, 30, zone),
      astimezone(DateTime(2025, 6, 15, 23, 30, 0, zone), utc),
      DateTime(2024, 11, 3, 6, 30, 0, utc) }

\* the now argument: None, or an instant as a UTC or an org-zone datetime
UpdateNows(zone) ==
    {None, Some(DateTime(2024, 3, 14, 14, 0, 30, utc)),
     Some(astimezone(DateTime(2024, 3, 14, 14, 0, 30, utc), zone)),
     Some(DateTime(2024, 11, 3, 15, 0, 0, utc)),
     Some(astimezone(DateTime(2024, 11, 3, 5, 45, 0, utc), zone))}

\* what timezone.now() can read
TimezoneNow == {DateTime(2024, 3, 14, 14, 0, 30, utc)}

\* (repeat_period, repeat_days_of_week) arguments
UpdateRules ==
    { <<REPEAT_NEVER, None>>, <<REPEAT_NEVER, Some(<<"W", "F">>)>>,
      <<REPEAT_DAILY, None>>,
      <<REPEAT_WEEKLY, Some(<<"W", "F">>)>>, <<REPEAT_WEEKLY, None>>,
      <<REPEAT_WEEKLY, Some(<<>>)>>, <<REPEAT_WEEKLY, Some(<<"X">>)>>,
      <<REPEAT_WEEKLY, Some(<<"M", "X">>)>>,
      <<REPEAT_MONTHLY, None>>, <<REPEAT_MONTHLY, Some(<<"W", "F">>)>>,
      <<REPEAT_YEARLY, None>> }

\* what create can be handed: also a day set with a foreign symbol for a period
\* that takes no day set
CreateRules ==
    UpdateRules \cup { <<REPEAT_NEVER, Some(<<"M", "X">>)>>, <<REPEAT_DAILY, Some(<<"X">>)>>,
                       <<REPEAT_MONTHLY, Some(<<"F", "m">>)>>, <<REPEAT_YEARLY, Some(<<"X">>)>> }

IsSubsetOfDays_FirstSymbol(str) ==
    str = <<>> \/ \E j \in 1..Len(DAYS_OF_WEEK_OFFSET) : DAYS_OF_WEEK_OFFSET[j] = str[1]

\* set(repeat_days_of_week).issubset(cls.DAYS_OF_WEEK_OFFSET)
IsSubsetOfDays(str) ==
    \A i \in 1..Len(str) : \E j \in 1..Len(DAYS_OF_WEEK_OFFSET) : DAYS_OF_WEEK_OFFSET[j] = str[i]

\* the assert of create
CreateAssertion(repeat_days_of_week) ==
    Falsy(repeat_days_of_week) \/ IsSubsetOfDays(Val(repeat_days_of_week))

\* if not now: now = timezone.now()
DefaultNow(now_arg, clock) == IF now_arg = None THEN clock ELSE Val(now_arg)

StartInPast_OfNextFire(local, ref) ==
    IF self # None /\ Val(self).next_fire # None
    THEN Lt(Val(Val(self).next_fire), ref) ELSE Lt(local, ref)

\* if start_time < now
StartInPast(local, ref) == Lt(local, ref)

\* the body of update_schedule on the object obj
update_schedule(obj, start, repeat_period, repeat_days_of_week, ref, entry) ==
    /\ start_time' = Some(start)
    /\ call' = [repeat_period |-> repeat_period, repeat_days_of_week |-> repeat_days_of_week]
    /\ chain' = 0
    /\ UNCHANGED <<external, tz>>
    /\ UNCHANGED expected
    /\ UNCHANGED dispatcher
    /\ IF repeat_period = REPEAT_NEVER
       THEN /\ self' = Some(ClearedFields(obj, start, repeat_period))
            /\ db' = self'
            /\ now' = Some(ref)
            /\ pc' = "idle"
            /\ caller' = entry
            /\ next_fire' = None
            /\ iterations' = 0
            /\ result' = None
       ELSE LET local == astimezone(start, tz)
                set == RecurrenceFields(obj, local, repeat_period, repeat_days_of_week)
            IN IF StartInPast(local, ref)
               THEN /\ self' = Some(set)
                    /\ UNCHANGED db
                    /\ EnterCalculateNextFire(set, ref, entry)
               ELSE /\ self' = Some([set EXCEPT !.next_fire = Some(local)])
                    /\ db' = self'
                    /\ now' = Some(ref)
                    /\ pc' = "idle"
                    /\ caller' = entry
                    /\ next_fire' = None
                    /\ iterations' = 0
                    /\ result' = None

\* create, with its arguments drawn from the given sets
CreateFrom(starts, rules, nows) ==
    /\ pc = "idle"
    /\ self = None
    /\ normalized' = None
    /\ \E start \in starts, rule \in rules, now_arg \in nows, clock \in TimezoneNow :
          IF CreateAssertion(rule[2])
          THEN update_schedule(NewSchedule(rule[1]), start, rule[1], rule[2],
                               DefaultNow(now_arg, clock), "create")
          ELSE /\ pc' = "raised"
               /\ caller' = "create"
               /\ call' = [repeat_period |-> rule[1], repeat_days_of_week |-> rule[2]]
               /\ UNCHANGED external
               /\ UNCHANGED <<tz, self, db, start_time, now, next_fire, iterations,
                              result, chain, expected>>
               /\ UNCHANGED dispatcher

Create == CreateFrom(UpdateStartTimes(tz), CreateRules, UpdateNows(tz))

\* update_schedule on the existing object, with its arguments drawn from the
\* given sets
UpdateScheduleFrom(starts, rules, nows) ==
    /\ pc = "idle"
    /\ self # None
    /\ normalized' = None
    /\ \E start \in starts, rule \in rules, now_arg \in nows, clock \in TimezoneNow :
          update_schedule(Val(self), start, rule[1], rule[2],
                          DefaultNow(now_arg, clock), "update_schedule")

UpdateSchedule == UpdateScheduleFrom(UpdateStartTimes(tz), UpdateRules, UpdateNows(tz))

\* update_schedule once more, with the arguments and the now of the call that
\* has just completed
UpdateScheduleAgain ==
    /\ pc = "idle"
    /\ self # None
    /\ caller \in {"create", "update_schedule"}
    /\ normalized = None
    /\ normalized' = self
    /\ update_schedule(Val(self), Val(start_time), call.repeat_period,
                       call.repeat_days_of_week, Val(now), "update_schedule")

\* before create
NoSchedule ==
    /\ self = None
    /\ db = None
    /\ pc = "idle"
    /\ caller = "none"
    /\ start_time = None
    /\ now = None
    /\ next_fire = None
    /\ iterations = 0
    /\ result = None
    /\ chain = 0
    /\ call = [repeat_period |-> REPEAT_NEVER, repeat_days_of_week |-> None]
    /\ normalized = None
    /\ expected = None

Init == tz \in OrgTimezones /\ NoSchedule /\ DispatcherInit({}) /\ NoExternal

Next == Create \/ UpdateSchedule \/ UpdateScheduleAgain \/ Loop

Spec == Init /\ [][Next]_vars

(***************************************************************************)
(* create and update_schedule around the days the clocks change, followed  *)
(* by calls of calculate_next_fire on the schedule they leave.             *)
(***************************************************************************)
WallClockStartTimes(zone) ==
    { DateTime(2024, 3, 9, 2, 30, 0, zone),
      DateTime(2024, 3, 10, 2, 30, 0, zone),    \* a reading New York's clock skips
      astimezone(DateTime(2024, 11, 2, 1, 30, 0, zone), utc) }

WallClockRules ==
    { <<REPEAT_DAILY, None>>, <<REPEAT_WEEKLY, Some(<<"U">>)>>,
      <<REPEAT_MONTHLY, None>>, <<REPEAT_YEARLY, None>> }

WallClockNows(zone) ==
    { Some(DateTime(2024, 3, 8, 12, 0, 0, utc)),
      Some(DateTime(2024, 3, 10, 6, 45, 0, utc)),
      Some(astimezone(DateTime(2024, 3, 10, 6, 45, 0, utc), zone)),
      Some(DateTime(2024, 11, 3, 6, 15, 0, utc)) }

WallClockCreate == CreateFrom(WallClockStartTimes(tz), WallClockRules, WallClockNows(tz))
WallClockUpdate == UpdateScheduleFrom(WallClockStartTimes(tz), WallClockRules, WallClockNows(tz))

WallClockInit == tz \in OrgTimezones /\ NoSchedule /\ DispatcherInit({}) /\ NoExternal

WallClockNext ==
    WallClockCreate \/ WallClockUpdate \/ CalculateNextFire \/ CalculateNextFireAgain \/ Loop

WallClockSpec == WallClockInit /\ [][WallClockNext]_vars

(***************************************************************************)
(* The life of a schedule: created, reconfigured, paused and resumed.      *)
(***************************************************************************)
LifecycleStartTimes(zone) ==
    {DateTime(2024, 3, 14, 9, 0, 0, zone), DateTime(2024, 3, 20, 9, 0, 0, zone)}
LifecycleRules ==
    {<<REPEAT_NEVER, None>>, <<REPEAT_DAILY, None>>, <<REPEAT_WEEKLY, Some(<<"W", "F">>)>>,
     <<REPEAT_MONTHLY, None>>, <<REPEAT_YEARLY, None>>}
LifecycleTimezones == {"Etc/UTC", "America/New_York"}

Paused_ClearsNextFire(obj) == [obj EXCEPT !.is_paused = TRUE, !.next_fire = None]

\* self.is_paused = True
Paused(obj) == [obj EXCEPT !.is_paused = TRUE]

\* self.is_paused = False
Resumed(obj) == [obj EXCEPT !.is_paused = FALSE]

SaveUpdateFields_NoWrite(row, obj) == row

\* self.save(update_fields=("is_paused",)): only that column of the row is written
SaveUpdateFields(row, obj) == [row EXCEPT !.is_paused = obj.is_paused]

Pause ==
    /\ pc = "idle"
    /\ self # None
    /\ db # None
    /\ self' = Some(Paused(Val(self)))
    /\ db' = Some(SaveUpdateFields(Val(db), Paused(Val(self))))
    /\ caller' = "pause"
    /\ UNCHANGED external
    /\ UNCHANGED <<tz, pc, start_time, now, next_fire, iterations, result, chain, call, normalized,
                   expected>>
    /\ UNCHANGED dispatcher

Resume ==
    /\ pc = "idle"
    /\ self # None
    /\ db # None
    /\ self' = Some(Resumed(Val(self)))
    /\ db' = Some(SaveUpdateFields(Val(db), Resumed(Val(self))))
    /\ caller' = "resume"
    /\ UNCHANGED external
    /\ UNCHANGED <<tz, pc, start_time, now, next_fire, iterations, result, chain, call, normalized,
                   expected>>
    /\ UNCHANGED dispatcher

(***************************************************************************)
(* The dispatcher.  Schedule has no advance method and the code that polls *)
(* and fires schedules is not part of these sources: the selection and the *)
(* advance follow the specification's DueScheduleSelector and advance(now),*)
(* over the schedules_due index that the model declares.                   *)
(***************************************************************************)
\* calculate_next_fire as one value: the loops of the call run to their return,
\* None standing for a call that has not returned after MaxIterations turns
RECURSIVE calculate_loop(_, _, _, _)
calculate_loop(obj, candidate, ref, n) ==
    LET h == Val(obj.repeat_hour_of_day)
        m == Val(obj.repeat_minute_of_hour)
    IN IF obj.repeat_period = REPEAT_MONTHLY
       THEN LET days == DaysInMonth(candidate.year, candidate.month)
                rdom == Val(obj.repeat_day_of_month)
                placed == ReplaceDayTime(candidate, IF days < rdom THEN days ELSE rdom, h, m)
            IN IF Gt(placed, ref) THEN Some(placed)
               ELSE IF n = MaxIterations THEN None
               ELSE calculate_loop(obj, astimezone(AddOneMonth(astimezone(placed, utc)), tz),
                                   ref, n + 1)
       ELSE LET again ==
                    \/ Le(candidate, ref)
                    \/ /\ obj.repeat_period = REPEAT_WEEKLY
                       /\ ~InString(_day_of_week(candidate), Val(obj.repeat_days_of_week))
                u == astimezone(candidate, utc)
                later == IF obj.repeat_period = REPEAT_YEARLY THEN AddOneYear(u) ELSE AddOneDay(u)
            IN IF ~again THEN Some(candidate)
               ELSE IF n = MaxIterations THEN None
               ELSE calculate_loop(obj, ReplaceTime(astimezone(later, tz), h, m), ref, n + 1)

compute_next(obj, ref) ==
    IF obj.repeat_period = REPEAT_WEEKLY /\ ~WeeklyAssertion(obj) THEN None
    ELSE calculate_loop(obj, ReplaceTimeZeroSeconds(astimezone(ref, tz),
                                 Val(obj.repeat_hour_of_day), Val(obj.repeat_minute_of_hour)),
                        ref, 0)

\* the index schedules_due: the next_fire of the rows with is_paused = False
schedules_due == IF db # None /\ ~Val(db).is_paused THEN {Val(db).next_fire} ELSE {}

\* the non-paused schedules with next_fire <= now
DueScheduleSelector(ref) ==
    \E nf \in schedules_due : nf # None /\ Instant(Val(nf)) <= Instant(ref)

\* the dispatcher's clock moves on
Tick ==
    /\ time < Len(PollClocks)
    /\ time' = time + 1
    /\ UNCHANGED external
    /\ UNCHANGED <<tz, self, db, pc, caller, start_time, now, next_fire, iterations, result,
                   chain, call, normalized, expected, worker, version>>

\* a worker asks what is due and takes the schedule if it is
Poll(w) ==
    /\ pc = "idle"
    /\ db # None
    /\ worker[w].pc = "idle"
    /\ version < MaxVersion
    /\ worker' = [worker EXCEPT ![w] =
                     IF DueScheduleSelector(Clock)
                     THEN [pc |-> "fire", due |-> TRUE, now |-> Some(Clock),
                           seen |-> version, outcome |-> "none"]
                     ELSE [IdleWorker EXCEPT !.now = Some(Clock)]]
    /\ UNCHANGED external
    /\ UNCHANGED <<tz, self, db, pc, caller, start_time, now, next_fire, iterations, result,
                   chain, call, normalized, expected, time, version>>

CompareAndSwap_Unchecked(w) == TRUE

\* the conditional update: the row still has the version the worker selected
CompareAndSwap(w) == version = worker[w].seen

Fired_MovesOneOff(row, ref) ==
    IF row.repeat_period = REPEAT_NEVER
    THEN [row EXCEPT !.last_fire = Some(ref), !.next_fire = Some(AddOneDay(ref))]
    ELSE [row EXCEPT !.last_fire = Some(ref), !.next_fire = compute_next(row, ref)]

\* advance(now) on a row: last_fire = now, and for a recurring period
\* next_fire = compute_next(rule, now)
Fired(row, ref) ==
    IF row.repeat_period = REPEAT_NEVER
    THEN [row EXCEPT !.last_fire = Some(ref)]
    ELSE [row EXCEPT !.last_fire = Some(ref), !.next_fire = compute_next(row, ref)]

\* a worker that took the schedule has fired it and advances it; the Python
\* side works on the row as the dispatcher left it
advance(w) ==
    /\ pc = "idle"
    /\ worker[w].pc = "fire"
    /\ IF ~CompareAndSwap(w)
       THEN /\ worker' = [worker EXCEPT ![w] = [IdleWorker EXCEPT !.seen = worker[w].seen,
                                                              !.outcome = "lost"]]
            /\ UNCHANGED <<self, db, version, caller>>
       ELSE IF Fired(Val(db), Val(worker[w].now)).next_fire = None
       THEN /\ worker' = [worker EXCEPT ![w].pc = "hung"]
            /\ UNCHANGED <<self, db, version, caller>>
       ELSE /\ db' = Some(Fired(Val(db), Val(worker[w].now)))
            /\ self' = db'
            /\ version' = version + 1
            /\ caller' = "advance"
            /\ worker' = [worker EXCEPT ![w] = [IdleWorker EXCEPT !.seen = worker[w].seen,
                                                              !.outcome = "won"]]
    /\ UNCHANGED external
    /\ UNCHANGED <<tz, pc, start_time, now, next_fire, iterations, result, chain, call, normalized,
                   expected, time>>

Dispatch == \E w \in Workers : Poll(w) \/ advance(w)

LifecycleCreate == CreateFrom(LifecycleStartTimes(tz), LifecycleRules, {Some(Clock)})
LifecycleUpdate == UpdateScheduleFrom(LifecycleStartTimes(tz), LifecycleRules, {Some(Clock)})

LifecycleNext ==
    LifecycleCreate \/ LifecycleUpdate \/ Loop \/ Pause \/ Resume \/ Tick \/ Dispatch

LifecycleInit ==
    tz \in LifecycleTimezones /\ NoSchedule /\ DispatcherInit({"w1"}) /\ NoExternal

LifecycleSpec == LifecycleInit /\ [][LifecycleNext]_vars

(***************************************************************************)
(* Two dispatcher workers polling the same schedule.                       *)
(***************************************************************************)
RaceInit ==
    tz \in LifecycleTimezones /\ NoSchedule /\ DispatcherInit(Workers) /\ NoExternal

RaceNext == LifecycleCreate \/ Loop \/ Tick \/ Dispatch

RaceSpec == RaceInit /\ [][RaceNext]_vars

(***************************************************************************)
(* The mailroom batch queue.  temba.mailroom.queue is not part of these    *)
(* sources; its test is.  The queue is modelled as the spec names it, a    *)
(* sorted-set based priority queue keyed by organization, with the keys    *)
(* and the entries the test reads back.                                    *)
(***************************************************************************)
MaxTasks == 2

Orgs == {1, 2}
BATCH_QUEUE == "batch"

\* the schedule engine's variables, which the collaborators leave alone
engine == <<tz, self, db, pc, caller, start_time, now, next_fire, iterations, result, chain,
            call, normalized, expected, time, worker, version>>

\* an id as it is written into a key or a member, and read back
dumps(id) == CASE id = 1 -> "1" [] id = 2 -> "2"
loads(str) == CHOOSE id \in Orgs : dumps(id) = str

\* f"tasks:{queue}:{org_id}" and f"tasks:{queue}:active"
OrgQueue_Unkeyed(queue, org_id) == <<"tasks", queue>>
OrgQueue(queue, org_id) == <<"tasks", queue, dumps(org_id)>>
ActiveQueue(queue) == <<"tasks", queue, "active">>

\* Redis sorted sets: member -> score under each key that exists
ZSet(r, key) == IF key \in DOMAIN r THEN r[key] ELSE <<>>
ZPut(r, key, member, score) ==
    [k \in DOMAIN r \cup {key} |->
        IF k = key
        THEN [m \in DOMAIN ZSet(r, key) \cup {member} |->
                 IF m = member THEN score ELSE ZSet(r, key)[m]]
        ELSE r[k]]
ZAdd(r, key, member, score) == ZPut(r, key, member, score)
ZIncrBy(r, key, amount, member) ==
    ZPut(r, key, member,
         IF member \in DOMAIN ZSet(r, key) THEN ZSet(r, key)[member] + amount ELSE amount)
ZCard(r, key) == Cardinality(DOMAIN ZSet(r, key))

\* the members by ascending score (members of equal score in some order)
RECURSIVE ByScore(_, _)
ByScore(zset, members) ==
    IF members = {} THEN <<>>
    ELSE LET least == CHOOSE m \in members : \A o \in members : zset[m] <= zset[o]
         IN  <<least>> \o ByScore(zset, members \ {least})
ZRange(r, key, start, end) ==
    LET all == ByScore(ZSet(r, key), DOMAIN ZSet(r, key))
    IN  SubSeq(all, start + 1, IF end + 1 < Len(all) THEN end + 1 ELSE Len(all))

\* the entry of a task in an org's queue
Payload(task_type, task, queued_on) ==
    [type |-> task_type, task |-> task, queued_on |-> queued_on]

\* one task onto the org's queue, and the org marked active
queue_batch_task(org_id, task_type, task) ==
    /\ Len(queued) < MaxTasks
    /\ redis' = ZIncrBy(ZAdd(redis, OrgQueue(BATCH_QUEUE, org_id),
                             Payload(task_type, task, Clock), Instant(Clock)),
                        ActiveQueue(BATCH_QUEUE), 0, dumps(org_id))
    /\ queued' = Append(queued, [org_id |-> org_id, type |-> task_type, task |-> task])
    /\ UNCHANGED <<tables, out, command>>
    /\ UNCHANGED <<channels, templates, whatsapp>>
    /\ UNCHANGED engine

FlowIds == {20, 21}
ContactLists == {<<10>>, <<10, 11>>}

\* FlowStart.async_start()
QueueFlowStart ==
    \E org_id \in Orgs, flow_id \in FlowIds, contact_ids \in ContactLists :
        queue_batch_task(org_id, "start_flow",
                         [start_id |-> 30, start_type |-> "M", org_id |-> org_id,
                          created_by_id |-> 40, flow_id |-> flow_id,
                          contact_ids |-> contact_ids, group_ids |-> <<50>>,
                          urns |-> <<"tel:+1234567890", "twitter:bobby">>,
                          query |-> None, exclusions |-> <<>>,
                          params |-> [foo |-> "bar"]])

\* ContactImport.start()
QueueContactImportBatch ==
    \E org_id \in Orgs, batch_id \in {60, 61} :
        queue_batch_task(org_id, "import_contact_batch",
                         [contact_import_batch_id |-> batch_id])

\* Channel.release()
QueueInterruptChannel ==
    \E org_id \in Orgs, channel_id \in {70, 71} :
        queue_batch_task(org_id, "interrupt_channel", [channel_id |-> channel_id])

\* queue_interrupt(org, contacts=...), Flow.archive(), queue_interrupt(org, sessions=...)
QueueInterrupt ==
    \E org_id \in Orgs :
        \/ \E contact_ids \in ContactLists :
              queue_batch_task(org_id, "interrupt_sessions", [contact_ids |-> contact_ids])
        \/ \E flow_id \in FlowIds :
              queue_batch_task(org_id, "interrupt_sessions", [flow_ids |-> <<flow_id>>])
        \/ \E session_id \in {80, 81} :
              queue_batch_task(org_id, "interrupt_sessions", [session_ids |-> <<session_id>>])

QueueInit == tz = "Etc/UTC" /\ NoSchedule /\ DispatcherInit({}) /\ NoExternal

QueueNext ==
    QueueFlowStart \/ QueueContactImportBatch \/ QueueInterruptChannel \/ QueueInterrupt \/ Tick

QueueSpec == QueueInit /\ [][QueueNext]_vars

(***************************************************************************)
(* The migrate_dynamo management command.  The command is not part of      *)
(* these sources; its test is.  A run goes through the tables of the       *)
(* settings in order, creates the ones that do not exist, waits for each   *)
(* to become active and reports what it did.                               *)
(***************************************************************************)
MaxRuns == 2

\* the tables of the settings: the one the test names, and one more
TABLES == <<"ChannelLogs", "Other">>

\* settings.DYNAMO_TABLE_PREFIX; a name is a sequence of words
TablePrefixes == {<<"Temp">>, <<"Local">>}
TableName(prefix, base) == prefix \o <<base>>
startswith(name, prefix) ==
    Len(name) >= Len(prefix) /\ SubSeq(name, 1, Len(prefix)) = prefix

\* what the receivers of pre_create_table add to a table's spec
Tags(receivers) ==
    IF "pre_create_table" \in receivers THEN <<[Key |-> "Foo", Value |-> "Bar"]>> ELSE <<>>

table_exists_Unprefixed(name) == Tail(name) \in DOMAIN tables
table_exists(name) == name \in DOMAIN tables

Wrote(message, name) == \E i \in 1..Len(out) : out[i] = <<message, name>>

\* call_command("migrate_dynamo", stdout=out)
CallCommand ==
    /\ command.pc \in {"idle", "done"}
    /\ command.runs < MaxRuns
    /\ \E prefix \in TablePrefixes, receivers \in SUBSET {"pre_create_table"} :
          command' = [pc |-> "ensure", prefix |-> prefix, receivers |-> receivers,
                      todo |-> TABLES, before |-> tables, runs |-> command.runs + 1]
    /\ out' = <<>>
    /\ UNCHANGED <<redis, queued, tables>>
    /\ UNCHANGED <<channels, templates, whatsapp>>
    /\ UNCHANGED engine

\* the next table of the run: skipped when it exists, created when not
EnsureTable ==
    /\ command.pc = "ensure"
    /\ command.todo # <<>>
    /\ LET name == TableName(command.prefix, Head(command.todo))
       IN  IF table_exists(name)
           THEN /\ out' = Append(out, <<"Skipping", name>>)
                /\ command' = [command EXCEPT !.todo = Tail(command.todo)]
                /\ UNCHANGED tables
           ELSE /\ out' = Append(out, <<"Creating", name>>)
                /\ tables' = [n \in DOMAIN tables \cup {name} |->
                                  IF n = name
                                  THEN [status |-> "CREATING", tags |-> Tags(command.receivers)]
                                  ELSE tables[n]]
                /\ command' = [command EXCEPT !.pc = "wait"]
    /\ UNCHANGED <<redis, queued>>
    /\ UNCHANGED <<channels, templates, whatsapp>>
    /\ UNCHANGED engine

\* table.wait_until_exists()
WaitUntilExists ==
    /\ command.pc = "wait"
    /\ LET name == TableName(command.prefix, Head(command.todo))
       IN  tables' = [tables EXCEPT ![name].status = "ACTIVE"]
    /\ command' = [command EXCEPT !.pc = "ensure", !.todo = Tail(command.todo)]
    /\ UNCHANGED <<redis, queued, out>>
    /\ UNCHANGED <<channels, templates, whatsapp>>
    /\ UNCHANGED engine

\* the run returns
CommandReturns ==
    /\ command.pc = "ensure"
    /\ command.todo = <<>>
    /\ command' = [command EXCEPT !.pc = "done"]
    /\ UNCHANGED <<redis, queued, tables, out>>
    /\ UNCHANGED <<channels, templates, whatsapp>>
    /\ UNCHANGED engine

\* MigrateDynamoTest.tearDown: the tables of the test's prefix are deleted
TearDown ==
    /\ command.pc \in {"idle", "done"}
    /\ \E name \in DOMAIN tables : startswith(name, <<"Temp">>)
    /\ tables' = [n \in {name \in DOMAIN tables : ~startswith(name, <<"Temp">>)} |-> tables[n]]
    /\ command' = [command EXCEPT !.pc = "idle"]
    /\ UNCHANGED <<redis, queued, out>>
    /\ UNCHANGED <<channels, templates, whatsapp>>
    /\ UNCHANGED engine

DynamoInit == tz = "Etc/UTC" /\ NoSchedule /\ DispatcherInit({}) /\ NoExternal

DynamoNext == CallCommand \/ EnsureTable \/ WaitUntilExists \/ CommandReturns \/ TearDown

DynamoSpec == DynamoInit /\ [][DynamoNext]_vars

(***************************************************************************)
(* The WhatsApp management commands: create_whatsapp_channel,              *)
(* insert_whatsapp_token and fetch_whatsapp_templates.  A run is one call  *)
(* of Command.handle; it returns, or raises CommandError.                  *)
(***************************************************************************)
MaxChannels == 1

\* Org.objects: org 1 has an admin, org 2 has none, org 3 is inactive and
\* there is no org 4
OrgRows ==
    [id \in {1, 2, 3} |->
        [is_active |-> id # 3,
         admins |-> IF id = 1 THEN <<"admin@example.com">> ELSE <<>>]]
OrgIds == {1, 2, 3, 4}

\* --auth-token / --token: none, one of 5 characters, one of 12
Tokens ==
    { <<>>, <<"s", "h", "o", "r", "t">>,
      <<"E", "A", "A", "B", "0", "1", "2", "3", "4", "5", "6", "7">> }

\* --name: not given, or given
ChannelNames == {None, Some(<<"N", "o", "o", "r", "a">>)}

\* dict.update
Update(config, more) ==
    [k \in DOMAIN config \cup DOMAIN more |-> IF k \in DOMAIN more THEN more[k] ELSE config[k]]

\* s[:n]
Truncated(str, n) == SubSeq(str, 1, IF Len(str) < n THEN Len(str) ELSE n)

\* options["dry_run"]
DryRun_Ignored(options) == FALSE
DryRun(options) == options.dry_run

\* Org.objects.get(id=org_id, is_active=True) finds a row
OrgFound(org_id) == org_id \in DOMAIN OrgRows /\ OrgRows[org_id].is_active

\* Channel.objects.get(id=channel_id, is_active=True) finds a row
ChannelFound(channel_id) == channel_id \in DOMAIN channels /\ channels[channel_id].is_active

\* _validate_auth_token_format: every branch after the first returns True
_validate_auth_token_format(auth_token) == ~(auth_token = <<>> \/ Len(auth_token) < 10)

\* the flags _manually_activate_channel and _update_channel_config add
Activation ==
    [activated |-> TRUE, activation_date |-> Clock, test_environment |-> TRUE,
     skip_meta_validation |-> TRUE]

WhatsappRun(name, options, outcome) ==
    whatsapp' = [command |-> name, options |-> options, outcome |-> outcome]

\* create_whatsapp_channel: steps 1 to 3 of handle
CreateValidates(options) ==
    /\ OrgFound(options.org_id)
    /\ OrgRows[options.org_id].admins # <<>>
    /\ _validate_auth_token_format(options.auth_token)

_prepare_channel_config(options) ==
    [base_url |-> options.base_url, username |-> options.username,
     password |-> options.password, auth_token |-> options.auth_token,
     fb_business_id |-> options.business_id, fb_access_token |-> "test_access_token",
     fb_namespace |-> options.namespace, fb_template_list_domain |-> "graph.facebook.com",
     fb_template_list_domain_api_version |-> "v14.0"]

_generate_channel_name(options) ==
    IF options.name # None /\ Val(options.name) # <<>>
    THEN Truncated(Val(options.name), 64)
    ELSE Truncated(options.number \o <<" ", "-", " ">> \o options.verified_name, 64)

\* Channel.create followed by _manually_activate_channel
_create_channel(org_id, name, phone_number_id, config) ==
    [org |-> org_id, channel_type |-> "WA", name |-> name, address |-> phone_number_id,
     config |-> Update(config, Activation), is_active |-> TRUE, role |-> "SR",
     is_enabled |-> TRUE, modified_on |-> None]

CreateWhatsappChannel ==
    /\ \E org_id \in OrgIds, auth_token \in Tokens, name \in ChannelNames, dry_run \in BOOLEAN :
          LET options == [org_id |-> org_id, number |-> <<"+", "1", "2">>,
                          verified_name |-> <<"N", "H">>, phone_number_id |-> "123456789",
                          waba_id |-> "987654321", business_id |-> "555666777",
                          auth_token |-> auth_token, namespace |-> "test_namespace",
                          base_url |-> "https://whatsapp.turn.io", username |-> "test_user",
                          password |-> "test_pass", name |-> name, dry_run |-> dry_run]
          IN  IF ~CreateValidates(options)
              THEN /\ WhatsappRun("create_whatsapp_channel", options, "CommandError")
                   /\ UNCHANGED channels
              ELSE IF DryRun(options)
              THEN /\ WhatsappRun("create_whatsapp_channel", options, "returned")
                   /\ UNCHANGED channels
              ELSE /\ Len(channels) < Len(InitialChannels) + MaxChannels
                   /\ channels' = Append(channels,
                                         _create_channel(org_id, _generate_channel_name(options),
                                                         options.phone_number_id,
                                                         _prepare_channel_config(options)))
                   /\ WhatsappRun("create_whatsapp_channel", options, "returned")
    /\ UNCHANGED templates
    /\ UNCHANGED <<redis, queued, tables, out, command>>
    /\ UNCHANGED engine

\* insert_whatsapp_token: steps 1 to 3 of handle
InsertValidates(options) ==
    /\ ChannelFound(options.channel_id)
    /\ _validate_auth_token_format(options.token)

_update_channel_config(channel, auth_token) ==
    LET config == Update(Update(channel.config, [auth_token |-> auth_token]), Activation)
        required == [wa_waba_id |-> "test_waba_id", wa_pin |-> "123456",
                     wa_verified_name |-> "Test Business"]
    IN [channel EXCEPT !.config = Update(required, config), !.modified_on = Some(Clock)]

InsertWhatsappToken ==
    /\ \E channel_id \in 1..(Len(channels) + 1), token \in Tokens, dry_run \in BOOLEAN :
          LET options == [channel_id |-> channel_id, token |-> token, dry_run |-> dry_run]
          IN  IF ~InsertValidates(options)
              THEN /\ WhatsappRun("insert_whatsapp_token", options, "CommandError")
                   /\ UNCHANGED channels
              ELSE IF DryRun(options)
              THEN /\ WhatsappRun("insert_whatsapp_token", options, "returned")
                   /\ UNCHANGED channels
              ELSE /\ channels' = [channels EXCEPT
                                      ![channel_id] = _update_channel_config(@, token)]
                   /\ WhatsappRun("insert_whatsapp_token", options, "returned")
    /\ UNCHANGED templates
    /\ UNCHANGED <<redis, queued, tables, out, command>>
    /\ UNCHANGED engine

\* what Meta's API answers: the pages of templates, or a failed request
MetaAnswers ==
    { [failed |-> TRUE, pages |-> <<>>],
      [failed |-> FALSE, pages |-> << <<>> >>],
      [failed |-> FALSE, pages |-> << <<"hello">> >>],
      [failed |-> FALSE, pages |-> << <<"hello">>, <<"welcome">> >>] }

\* _fetch_templates_from_meta: the templates of all the pages
RECURSIVE _fetch_templates_from_meta(_)
_fetch_templates_from_meta(pages) ==
    IF pages = <<>> THEN <<>> ELSE Head(pages) \o _fetch_templates_from_meta(Tail(pages))

\* fetch_whatsapp_templates: _get_channel
FetchValidates(options) ==
    /\ ChannelFound(options.channel_id)
    /\ channels[options.channel_id].channel_type \in {"WAC", "WA"}

\* TemplateTranslation.update_local(channel, raw_templates)
update_local(channel_id, raw_templates) ==
    {t \in templates : t[1] # channel_id}
        \cup {<<channel_id, raw_templates[i]>> : i \in 1..Len(raw_templates)}

FetchWhatsappTemplates ==
    /\ \E channel_id \in 1..(Len(channels) + 1), answer \in MetaAnswers, dry_run \in BOOLEAN :
          LET options == [waba_id |-> "123456789", access_token |-> "TOKEN",
                          channel_id |-> channel_id, dry_run |-> dry_run]
              raw_templates == _fetch_templates_from_meta(answer.pages)
          IN  IF ~FetchValidates(options) \/ answer.failed
              THEN /\ WhatsappRun("fetch_whatsapp_templates", options, "CommandError")
                   /\ UNCHANGED templates
              ELSE IF raw_templates = <<>> \/ DryRun(options)
              THEN /\ WhatsappRun("fetch_whatsapp_templates", options, "returned")
                   /\ UNCHANGED templates
              ELSE /\ templates' = update_local(channel_id, raw_templates)
                   /\ WhatsappRun("fetch_whatsapp_templates", options, "returned")
    /\ UNCHANGED channels
    /\ UNCHANGED <<redis, queued, tables, out, command>>
    /\ UNCHANGED engine

WhatsappInit == tz = "Etc/UTC" /\ NoSchedule /\ DispatcherInit({}) /\ NoExternal

WhatsappNext == CreateWhatsappChannel \/ InsertWhatsappToken \/ FetchWhatsappTemplates

WhatsappSpec == WhatsappInit /\ [][WhatsappNext]_vars

(***************************************************************************)
(* Properties                                                              *)
(***************************************************************************)
Returned == pc = "idle" /\ caller = "calculate_next_fire" /\ result # None
Completed == pc = "idle" /\ caller \in {"create", "update_schedule"} /\ self # None
sched == Val(self)

\* C1: every value calculate_next_fire(now) returns is an instant strictly
\* later than now; a candidate equal to now is never returned.
C1_Monotonic == Returned => Instant(Val(result)) > Instant(Val(now))

\* the reference was the previous result, so the first candidate was the
\* reference itself, and the call returned a later one
C1_Witness ==
    /\ Returned
    /\ chain > 0
    /\ iterations > 0
    /\ sched.repeat_period = REPEAT_DAILY

\* C2: the monthly loop ends within 12 turns for every target day, time,
\* timezone and reference.
C2_MonthlyWithin12 == pc = "monthly" => iterations <= 12

\* C3: in the daily and weekly loops every turn (add 24h in UTC, convert,
\* re-apply hour and minute) gives an instant strictly later than the
\* candidate before it.
C3_DayStepsAdvance ==
    [][(pc \in {"daily", "weekly"} /\ iterations' = iterations + 1)
          => Instant(Val(next_fire')) > Instant(Val(next_fire))]_vars

\* the reference is a firing of a monthly rule: its day in the org timezone is
\* the clamped target day, at the rule's hour and minute
IsMonthlyFiring(ref) ==
    LET n == astimezone(ref, tz)
        days == DaysInMonth(n.year, n.month)
        rdom == Val(sched.repeat_day_of_month)
    IN /\ n.day = (IF days < rdom THEN days ELSE rdom)
       /\ n.hour = hour /\ n.minute = minute /\ n.second = 0

\* C4: for a monthly rule on day 31, the firing after a firing is in the next
\* zone-local calendar month, on day min(days_in_month, 31).
C4_MonthClamp ==
    (/\ Returned
     /\ sched.repeat_period = REPEAT_MONTHLY
     /\ Val(sched.repeat_day_of_month) = 31
     /\ IsMonthlyFiring(Val(now)))
        => LET n == astimezone(Val(now), tz)
               r == astimezone(Val(result), tz)
               following == AddOneMonth([n EXCEPT !.day = 1])
               days == DaysInMonth(following.year, following.month)
           IN /\ r.year = following.year
              /\ r.month = following.month
              /\ r.day = (IF days < 31 THEN days ELSE 31)

RECURSIVE PlusDays(_, _)
PlusDays(d, k) == IF k = 0 THEN d ELSE PlusDays(NextDay(d), k - 1)

\* a wall-clock reading the zone's clock shows at some instant, with the fold
\* that instant has
WallExists(d) == astimezone(astimezone(d, utc), d.tzinfo) = d

\* the instants after ref at which the org zone's clock shows hour:minute on a
\* day of the set; a reading the clock skips when it goes forward counts at the
\* instant its fold-0 offset gives it, the second showing of a repeated
\* reading counts as well
WeeklyOccurrences(ref) ==
    LET base == ReplaceTimeZeroSeconds(astimezone(ref, tz), hour, minute)
        first == {[PlusDays(base, k) EXCEPT !.fold = 0] : k \in 0..14}
        second == {x \in {[PlusDays(base, k) EXCEPT !.fold = 1] : k \in 0..14} :
                      WallExists(x)}
    IN {Instant(c) : c \in {x \in first \cup second :
            /\ InString(_day_of_week(x), Val(sched.repeat_days_of_week))
            /\ Instant(x) > Instant(ref)}}

\* C5: a weekly rule returns the earliest instant after now whose wall clock
\* in the org timezone is (hour, minute) on a weekday of the set.
C5_WeeklyEarliest ==
    (Returned /\ sched.repeat_period = REPEAT_WEEKLY)
        => /\ Instant(Val(result)) \in WeeklyOccurrences(Val(now))
           /\ \A i \in WeeklyOccurrences(Val(now)) : Instant(Val(result)) <= i

\* C6: a yearly rule returns an instant on the zone-local month and day of the
\* schedule's current next_fire.
C6_YearlyAnchor ==
    (Returned /\ sched.repeat_period = REPEAT_YEARLY)
        => LET anchor == astimezone(Val(sched.next_fire), tz)
               r == astimezone(Val(result), tz)
           IN r.month = anchor.month /\ r.day = anchor.day

\* C7: after update_schedule with a recurring period, a start time before now
\* leaves next_fire at the value calculate_next_fire(now) returned, strictly
\* later than now; any other start time is next_fire itself.
C7_PastStartJumps ==
    (Completed /\ sched.repeat_period \in Recurring)
        => IF Instant(Val(start_time)) < Instant(Val(now))
           THEN /\ result # None
                /\ sched.next_fire = result
                /\ Instant(Val(sched.next_fire)) > Instant(Val(now))
           ELSE /\ result = None
                /\ sched.next_fire = Some(astimezone(Val(start_time), tz))
                /\ Instant(Val(sched.next_fire)) = Instant(Val(start_time))

\* C8: after update_schedule with REPEAT_NEVER the four recurrence fields are
\* null and next_fire is the start time as given, in the object and as saved.
C8_NeverClears ==
    (Completed /\ sched.repeat_period = REPEAT_NEVER)
        => /\ sched.repeat_hour_of_day = None
           /\ sched.repeat_minute_of_hour = None
           /\ sched.repeat_day_of_month = None
           /\ sched.repeat_days_of_week = None
           /\ sched.next_fire = start_time
           /\ db = self

\* a REPEAT_NEVER update with a start time in the past, on an existing schedule
C8_Witness ==
    /\ Completed
    /\ caller = "update_schedule"
    /\ sched.repeat_period = REPEAT_NEVER
    /\ Instant(Val(start_time)) < Instant(Val(now))
    /\ sched.next_fire = start_time

\* C9: after every completed call either the period is REPEAT_NEVER and the
\* four recurrence fields are null, or hour and minute are set, the day set is
\* non-empty exactly for weekly and the day of month set exactly for monthly.
C9_FieldExclusivity ==
    Completed =>
        IF sched.repeat_period = REPEAT_NEVER
        THEN /\ sched.repeat_hour_of_day = None
             /\ sched.repeat_minute_of_hour = None
             /\ sched.repeat_day_of_month = None
             /\ sched.repeat_days_of_week = None
        ELSE /\ sched.repeat_hour_of_day # None
             /\ sched.repeat_minute_of_hour # None
             /\ (~Falsy(sched.repeat_days_of_week)) <=> (sched.repeat_period = REPEAT_WEEKLY)
             /\ (sched.repeat_day_of_month # None) <=> (sched.repeat_period = REPEAT_MONTHLY)

InvalidDaySet(days) == Falsy(days) \/ ~IsSubsetOfDays(Val(days))

\* C10: a weekly rule with an invalid day set (empty, None, or a symbol outside
\* MTWRFSU) is rejected by the call that configures it: the call raises, it
\* neither stores the rule nor runs on.
C10_InvalidDaysRejected ==
    (/\ self # None
     /\ caller \in {"create", "update_schedule"}
     /\ sched.repeat_period = REPEAT_WEEKLY
     /\ InvalidDaySet(sched.repeat_days_of_week))
        => pc = "raised"

\* C11: create raises, leaving no schedule in memory or in the database, exactly
\* when its repeat_days_of_week argument holds a symbol outside MTWRFSU,
\* whatever the repeat_period; an empty, None or valid day set passes the check.
C11_CreateRejectsSymbols ==
    caller = "create" =>
        ((pc = "raised" /\ self = None /\ db = None)
            <=> (/\ call.repeat_days_of_week # None
                 /\ \E i \in 1..Len(Val(call.repeat_days_of_week)) :
                        Val(call.repeat_days_of_week)[i]
                            \notin {"M", "T", "W", "R", "F", "S", "U"}))

\* a one-off schedule is refused for a foreign symbol after a valid one
C11_Witness ==
    /\ caller = "create"
    /\ pc = "raised"
    /\ self = None
    /\ call = [repeat_period |-> REPEAT_NEVER, repeat_days_of_week |-> Some(<<"M", "X">>)]

\* C12: pause() leaves is_paused true and resume() leaves it false, in the
\* object and in its row, and a pause or resume step changes no other field of
\* either: next_fire, last_fire, repeat_period and the recurrence fields stay.
C12_PauseResumeFrame ==
    [][(caller' \in {"pause", "resume"} /\ (caller' # caller \/ self' # self \/ db' # db))
          => /\ Val(self').is_paused = (caller' = "pause")
             /\ Val(db').is_paused = (caller' = "pause")
             /\ [Val(self') EXCEPT !.is_paused = FALSE] = [Val(self) EXCEPT !.is_paused = FALSE]
             /\ [Val(db') EXCEPT !.is_paused = FALSE] = [Val(db) EXCEPT !.is_paused = FALSE]]_vars

\* a recurring schedule that was paused and resumed, with the next_fire that
\* update_schedule computed
C12_Witness ==
    /\ caller = "resume"
    /\ self # None
    /\ ~sched.is_paused
    /\ sched.repeat_period = REPEAT_WEEKLY
    /\ sched.next_fire = result
    /\ db = self

\* C13: a poll at instant now takes the schedule if and only if the schedule
\* is not paused and its next_fire is at or before now, whatever create,
\* update_schedule, pause and resume calls came before: a paused schedule is
\* never taken however overdue, a resumed one is taken again.
C13_PauseExclusion ==
    [][\A w \in Workers :
          (worker'[w] # worker[w] /\ worker'[w].now # None)
              => ((worker'[w].pc = "fire")
                     <=> (/\ ~Val(self).is_paused
                          /\ Instant(Val(Val(self).next_fire))
                                 <= Instant(Val(worker'[w].now))))]_vars

\* an overdue schedule that was paused has been polled and left alone
C13_Witness ==
    /\ self # None
    /\ pc = "idle"
    /\ caller = "pause"
    /\ sched.is_paused
    /\ worker["w1"].now = Some(Clock)
    /\ worker["w1"].pc = "idle"
    /\ time = 3
    /\ sched.repeat_period = REPEAT_DAILY
    /\ Instant(Val(sched.next_fire)) < Instant(PollClocks[2])

\* the references from the day before the clocks go forward in New York to the
\* end of the day they do
AroundSpringForward(ref) ==
    /\ Instant(DateTime(2024, 3, 9, 5, 0, 0, utc)) <= Instant(ref)
    /\ Instant(ref) < Instant(DateTime(2024, 3, 11, 4, 0, 0, utc))

\* C14: a daily rule at 02:30 in New York, called with a reference just before
\* or on the day the clocks skip 02:00-03:00, does not raise and returns within
\* two turns; the instant returned is strictly after the reference (so after
\* the fire it was called with) and the zone's clock reads 02:30 there, or
\* 03:30 on the day of the gap.
C14_SpringForward ==
    (/\ tz = "America/New_York"
     /\ caller = "calculate_next_fire"
     /\ now # None
     /\ sched.repeat_period = REPEAT_DAILY
     /\ hour = 2 /\ minute = 30
     /\ AroundSpringForward(Val(now)))
        => /\ pc # "raised"
           /\ iterations <= 2
           /\ Returned =>
                 LET r == fromutc(tz, astimezone(Val(result), utc))
                 IN /\ Instant(Val(result)) > Instant(Val(now))
                    /\ r.minute = 30
                    /\ r.hour = 2 \/ (r.hour = 3 /\ r.month = 3 /\ r.day = 10)

\* the fire in the gap was returned, and the call with it as reference
\* returned the next day's
C14_Witness ==
    /\ Returned
    /\ tz = "America/New_York"
    /\ sched.repeat_period = REPEAT_DAILY
    /\ chain > 0
    /\ Instant(Val(now)) = Instant(DateTime(2024, 3, 10, 7, 30, 0, utc))
    /\ Val(result) = DateTime(2024, 3, 11, 2, 30, 0, tz)

\* C15: when update_schedule has completed a second time with the start_time,
\* repeat_period, repeat_days_of_week and now of the call before it, next_fire
\* and every other field are what the first call left, in the object and in
\* the row.
C15_Renormalization ==
    (Completed /\ normalized # None) => (self = normalized /\ db = normalized)

\* the pair of calls both went through calculate_next_fire for a monthly rule
C15_Witness ==
    /\ Completed
    /\ normalized # None
    /\ sched.repeat_period = REPEAT_MONTHLY
    /\ iterations > 0
    /\ sched.next_fire = result

\* C16: calculate_next_fire writes no field of the schedule, in the object or
\* in its row, and on a schedule with the same repeat_period, hour, minute, day
\* of month, days of week and org timezone but another next_fire, or another
\* last_fire and is_paused, it returns the same instant for the same now.
C16_Deterministic ==
    [][/\ (expected' = expected) => (self' = self /\ db' = db)
       /\ (pc' = "idle" /\ result' # None /\ expected' # None)
              => Instant(Val(result')) = Instant(Val(expected'))]_vars

\* a yearly rule's twin with another next_fire has returned after a turn of
\* the loop
C16_Witness ==
    /\ Returned
    /\ expected # None
    /\ sched.repeat_period = REPEAT_YEARLY
    /\ iterations > 0
    /\ Val(sched.next_fire).year = 2023

\* C17: when two workers have taken the schedule for the same due occurrence
\* (the same version of the row) and both have attempted the advance, exactly
\* one advance took effect: one worker won, the other lost and wrote nothing,
\* and the row moved on by one version.
C17_OneAdvanceWins ==
    \A w1, w2 \in Workers :
        (/\ w1 # w2
         /\ worker[w1].outcome # "none" /\ worker[w2].outcome # "none"
         /\ worker[w1].seen = worker[w2].seen)
            => /\ {worker[w1].outcome, worker[w2].outcome} = {"won", "lost"}
               /\ version = worker[w1].seen + 1

\* both workers took a due daily schedule at the same poll; w2 advanced it and
\* w1 found the row changed
C17_Witness ==
    /\ self # None
    /\ sched.repeat_period = REPEAT_DAILY
    /\ worker["w1"].outcome = "lost"
    /\ worker["w2"].outcome = "won"
    /\ worker["w1"].seen = worker["w2"].seen
    /\ sched.last_fire = Some(Clock)
    /\ Instant(Val(sched.next_fire)) > Instant(Clock)

\* C18: an advance of a schedule with repeat_period REPEAT_NEVER writes
\* last_fire = now and nothing else, next_fire included; and a poll of such a
\* schedule that has fired, its next_fire still the one it fired for, takes it
\* again unless it is paused.
C18_OneOffStaysDue ==
    [][/\ (version' # version /\ Val(db).repeat_period = REPEAT_NEVER)
              => \E w \in Workers :
                     /\ worker[w].pc = "fire"
                     /\ Val(db') = [Val(db) EXCEPT !.last_fire = worker[w].now]
       /\ \A w \in Workers :
              (/\ worker'[w] # worker[w]
               /\ worker'[w].now # None
               /\ Val(self).repeat_period = REPEAT_NEVER
               /\ Val(self).last_fire # None
               /\ Instant(Val(Val(self).next_fire)) <= Instant(Val(Val(self).last_fire)))
                  => (worker'[w].pc = "fire" <=> ~Val(self).is_paused)]_vars

\* a one-off schedule has been advanced twice, at two polls, and still has
\* the next_fire it was given
C18_Witness ==
    /\ self # None
    /\ sched.repeat_period = REPEAT_NEVER
    /\ version = 2
    /\ sched.next_fire = start_time
    /\ sched.last_fire = Some(PollClocks[2])
    /\ db = self

\* C19: once exactly one task has been queued for an org onto empty queues,
\* tasks:batch:active has exactly one member, that org's id, the org's own
\* queue has exactly one entry, made of the task's type, its payload and a
\* queued_on time, and the queue of every other org is empty.
C19_OneTaskQueued ==
    Len(queued) = 1 =>
        LET org_id == queued[1].org_id
            actual_task == ZRange(redis, OrgQueue(BATCH_QUEUE, org_id), 0, 1)[1]
        IN  /\ ZCard(redis, ActiveQueue(BATCH_QUEUE)) = 1
            /\ loads(ZRange(redis, ActiveQueue(BATCH_QUEUE), 0, 1)[1]) = org_id
            /\ ZCard(redis, OrgQueue(BATCH_QUEUE, org_id)) = 1
            /\ DOMAIN actual_task = {"type", "task", "queued_on"}
            /\ actual_task.type = queued[1].type
            /\ actual_task.task = queued[1].task
            /\ \E i \in 1..Len(PollClocks) : actual_task.queued_on = PollClocks[i]
            /\ \A other \in Orgs \ {org_id} : ZCard(redis, OrgQueue(BATCH_QUEUE, other)) = 0

\* a session interrupt by contacts is the one task queued, for the second org
C19_Witness ==
    /\ Len(queued) = 1
    /\ queued[1].org_id = 2
    /\ queued[1].type = "interrupt_sessions"
    /\ queued[1].task = [contact_ids |-> <<10, 11>>]
    /\ ZCard(redis, OrgQueue(BATCH_QUEUE, 2)) = 1

\* C20: when a run of migrate_dynamo has returned, every table of the
\* settings that was missing at its start has been reported as created and is
\* ACTIVE, every table that was there has been reported as skipped and is as
\* it was, no other table was touched, and a run that found all its tables
\* leaves the tables exactly as they were.
C20_MigrateIdempotent ==
    command.pc = "done" =>
        LET names == {TableName(command.prefix, TABLES[i]) : i \in 1..Len(TABLES)}
            before == command.before
        IN  /\ \A name \in names :
                  IF name \in DOMAIN before
                  THEN /\ Wrote("Skipping", name)
                       /\ ~Wrote("Creating", name)
                       /\ tables[name] = before[name]
                  ELSE /\ Wrote("Creating", name)
                       /\ ~Wrote("Skipping", name)
                       /\ tables[name].status = "ACTIVE"
            /\ DOMAIN tables = DOMAIN before \cup names
            /\ \A name \in DOMAIN before : tables[name] = before[name]
            /\ (names \subseteq DOMAIN before) => tables = before

\* the second of two runs under the prefix Temp has returned: it skipped the
\* tables the first one created
C20_Witness ==
    /\ command.pc = "done"
    /\ command.runs = 2
    /\ command.prefix = <<"Temp">>
    /\ out = <<<<"Skipping", <<"Temp", "ChannelLogs">>>>, <<"Skipping", <<"Temp", "Other">>>>>>
    /\ tables = command.before
    /\ tables[<<"Temp", "ChannelLogs">>].status = "ACTIVE"
    /\ <<"Local", "ChannelLogs">> \notin DOMAIN tables

\* the reference is a firing of the rule: the org zone's clock shows the
\* rule's hour and minute at it
IsFiring(ref) ==
    LET n == astimezone(ref, tz)
    IN n.hour = hour /\ n.minute = minute /\ n.second = 0

\* C21: for a daily rule, the firing calculate_next_fire returns after a
\* firing is on the next zone-local calendar date: no date is skipped and
\* none repeated, also across a DST change.
C21_DailyCadence ==
    (Returned /\ sched.repeat_period = REPEAT_DAILY /\ IsFiring(Val(now)))
        => LET n == astimezone(Val(now), tz)
               r == astimezone(Val(result), tz)
               following == NextDay(n)
           IN /\ r.year = following.year
              /\ r.month = following.month
              /\ r.day = following.day
              /\ r.hour = hour /\ r.minute = minute

\* the instant of d as the org zone's clock shows it
InOrgZone(d) == astimezone(astimezone(d, utc), tz)

\* what create or update_schedule has stored as next_fire, and what
\* calculate_next_fire has returned
Fires ==
    (IF Completed /\ sched.repeat_period \in Recurring THEN {Val(sched.next_fire)} ELSE {})
        \cup (IF Returned THEN {Val(result)} ELSE {})

\* the reading of d is one its zone's clock skips when it goes forward
InGap(d) ==
    /\ d.tzinfo # utc
    /\ HasDst(d.tzinfo)
    /\ LET skipped == DstStartUtc(d.tzinfo, d.year) + StdOffset(d.tzinfo)
       IN  skipped <= WallSeconds(d) /\ WallSeconds(d) < skipped + 3600

WeeklyOnDays ==
    /\ sched.repeat_period = REPEAT_WEEKLY
    /\ ~Falsy(sched.repeat_days_of_week)
    /\ IsSubsetOfDays(Val(sched.repeat_days_of_week))

OnDayOfSet(d) == InString(_day_of_week(astimezone(d, tz)), Val(sched.repeat_days_of_week))

OnDayOfMonth(d) ==
    LET n == astimezone(d, tz)
        days == DaysInMonth(n.year, n.month)
        rdom == Val(sched.repeat_day_of_month)
    IN n.day = (IF days < rdom THEN days ELSE rdom)

\* C23 as stated: after create or update_schedule, on either path, a weekly
\* schedule's next_fire is on a weekday of its set and a monthly schedule's
\* next_fire on the clamped day of the month.
C23_RuleConformance ==
    Completed =>
        /\ WeeklyOnDays => OnDayOfSet(Val(sched.next_fire))
        /\ sched.repeat_period = REPEAT_MONTHLY => OnDayOfMonth(Val(sched.next_fire))

\* C23: after create or update_schedule, a monthly schedule's next_fire is on
\* the clamped day of the month on either path; a weekly schedule's next_fire
\* is on a weekday of its set when calculate_next_fire computed it, and is the
\* start time in the org timezone, whatever its weekday, when the start time
\* was not in the past.
C23_ComputedConforms ==
    Completed =>
        /\ WeeklyOnDays =>
              IF result # None
              THEN OnDayOfSet(Val(sched.next_fire)) /\ sched.next_fire = result
              ELSE sched.next_fire = Some(astimezone(Val(start_time), tz))
        /\ sched.repeat_period = REPEAT_MONTHLY => OnDayOfMonth(Val(sched.next_fire))

\* a weekly schedule on Wednesdays and Fridays was given a past start time on
\* another weekday, and the loop moved next_fire onto a day of the set
C23_Witness ==
    /\ Completed
    /\ sched.repeat_days_of_week = Some(<<"W", "F">>)
    /\ sched.repeat_period = REPEAT_WEEKLY
    /\ result # None
    /\ iterations > 0
    /\ ~OnDayOfSet(Val(start_time))
    /\ OnDayOfSet(Val(sched.next_fire))

\* the validation steps of the command pass on the options, in the state
\* the run starts from
Validates(run) ==
    IF run.command = "create_whatsapp_channel" THEN CreateValidates(run.options)
    ELSE IF run.command = "insert_whatsapp_token" THEN InsertValidates(run.options)
    ELSE FetchValidates(run.options)

\* C24: a run with --dry-run of any of the three commands leaves the channels
\* and the templates as they were, and it still raises CommandError when a
\* validation step fails: the org, admin or channel lookup, the token check.
C24_DryRunWritesNothing ==
    [][(whatsapp'.command # "none" /\ whatsapp'.options.dry_run)
          => /\ channels' = channels
             /\ templates' = templates
             /\ ~Validates(whatsapp') => whatsapp'.outcome = "CommandError"]_vars

\* a dry run of insert_whatsapp_token has returned for a channel that an
\* earlier run created, and the channel is as that run left it
C24_Witness ==
    /\ whatsapp.command = "insert_whatsapp_token"
    /\ whatsapp.options.dry_run
    /\ whatsapp.outcome = "returned"
    /\ whatsapp.options.channel_id = Len(InitialChannels) + 1
    /\ Len(channels) > Len(InitialChannels)
    /\ channels[whatsapp.options.channel_id].modified_on = None
    /\ templates # {}

====
